---- MODULE Spec2Model ----
(***************************************************************************)
(* Model of the text normalisation, chunking, statistics and map-reduce    *)
(* summarisation code of the content generator (src/text_processor.py,     *)
(* src/main.py).                                                           *)
(*                                                                         *)
(* A Python str is modelled as a sequence of one-character strings, so     *)
(* that splitting, joining, slicing and the regular-expression rewrites    *)
(* are computed character by character as the interpreter computes them.   *)
(***************************************************************************)
EXTENDS Integers, Sequences, FiniteSets, TLC

VARIABLES
    \* TextProcessor.chunk_text
    text, chunk_size, overlap, chunks, chunk_pos, cpc,
    \* TextProcessor.clean_text
    raw, cleaned, recleaned, npc,
    \* TextProcessor.get_text_stats
    stext, stats, spc,
    \* ContentGenerator.process_file / summarize_text
    clean_doc, doc_chunks, i, chunk_summaries, final_summary, calls,
    last_call, raised, ppc

chunkVars == <<text, chunk_size, overlap, chunks, chunk_pos, cpc>>
cleanVars == <<raw, cleaned, recleaned, npc>>
statVars  == <<stext, stats, spc>>
pipeVars  == <<clean_doc, doc_chunks, i, chunk_summaries, final_summary,
               calls, last_call, raised, ppc>>
vars == <<chunkVars, cleanVars, statVars, pipeVars>>

(***************************************************************************)
(* Bounds of the model.                                                    *)
(***************************************************************************)
MaxTextLen == 7
MaxChunkSize == 5
MaxOverlap == 5
MaxRawLen == 5
MaxStatLen == 5
MaxDocChunks == 6

(***************************************************************************)
(* Characters and strings.                                                 *)
(***************************************************************************)
SP == " "
NL == "\n"
TAB == "\t"

\* the characters \s matches
Whitespace == {SP, NL, TAB}

\* \s of the re module, str.split() and str.strip(): whitespace
IsSpace(c) == c \in Whitespace

\* \w of the re module
IsWord(c) == c \in {"a", "b", "c", "x", "_", "0"}

\* the punctuation kept by the character class [^\w\s.,;:!?-]
IsKeptPunct(c) == c \in {".", ",", ";", ":", "!", "?", "-"}

\* the sentence terminators of the class [.!?]
IsTerminator(c) == c \in {".", "!", "?"}

Min(a, b) == IF a < b THEN a ELSE b

\* all strings over alphabet A of length at most n
StringsUpTo(A, n) == UNION {[1..k -> A] : k \in 0..n}

\* s[:n]
Take(s, n) == SubSeq(s, 1, Min(n, Len(s)))

\* the last n elements of s
LastN(s, n) == SubSeq(s, Len(s) - n + 1, Len(s))

RECURSIVE SplitAcc(_, _, _, _)
SplitAcc(s, k, cur, out) ==
    IF k > Len(s)
    THEN IF cur = <<>> THEN out ELSE Append(out, cur)
    ELSE IF IsSpace(s[k])
         THEN SplitAcc(s, k + 1, <<>>,
                       IF cur = <<>> THEN out ELSE Append(out, cur))
         ELSE SplitAcc(s, k + 1, Append(cur, s[k]), out)

\* str.split(): the maximal runs of non-whitespace characters, in order
Split(s) == SplitAcc(s, 1, <<>>, <<>>)

RECURSIVE Join(_)
\* ' '.join(tokens)
Join(tokens) ==
    IF tokens = <<>> THEN <<>>
    ELSE IF Len(tokens) = 1 THEN tokens[1]
    ELSE tokens[1] \o <<SP>> \o Join(Tail(tokens))

(***************************************************************************)
(* TextProcessor.chunk_text                                                *)
(***************************************************************************)
RECURSIVE SumLengths(_)
\* sum(len(w) + 1 for w in current_chunk)
SumLengths(current_chunk) ==
    IF current_chunk = <<>> THEN 0
    ELSE Len(Head(current_chunk)) + 1 + SumLengths(Tail(current_chunk))

RECURSIVE OverlapScan(_, _, _, _, _)
\* the loop over reversed(current_chunk); j is the position being visited
OverlapScan(current_chunk, j, overlap_words, overlap_length, ov) ==
    IF j = 0 THEN overlap_words
    ELSE LET w == current_chunk[j] IN
         IF overlap_length + Len(w) + 1 <= ov
         THEN OverlapScan(current_chunk, j - 1, <<w>> \o overlap_words,
                          overlap_length + Len(w) + 1, ov)
         ELSE overlap_words

\* faulty variant: the last word is taken before the bound is tested
OverlapWordsLate(current_chunk, ov) ==
    IF current_chunk = <<>> THEN <<>>
    ELSE OverlapScan(current_chunk, Len(current_chunk) - 1,
                     <<current_chunk[Len(current_chunk)]>>,
                     Len(current_chunk[Len(current_chunk)]) + 1, ov)

\* overlap_words after the loop of lines 101-108
OverlapWords(current_chunk, ov) ==
    OverlapScan(current_chunk, Len(current_chunk), <<>>, 0, ov)

\* faulty variant: the word that forced the split is left out of the new chunk
NewChunkDropsWord(overlap_words, word) == overlap_words

\* current_chunk = overlap_words + [word]
NewChunk(overlap_words, word) == overlap_words \o <<word>>

\* The state of the loop: chunks, current_chunk and current_length are the
\* locals of chunk_text; pos and current_pos record, for every token held in
\* chunks and current_chunk, its position in words.
LoopInit ==
    [chunks |-> <<>>, pos |-> <<>>, current_chunk |-> <<>>,
     current_pos |-> <<>>, current_length |-> 0]

\* one iteration of "for word in words", for the word at position p
ChunkStep(st, word, p, size, ov) ==
    LET word_length == Len(word) + 1 IN
    IF st.current_length + word_length > size
    THEN LET overlap_words == OverlapWords(st.current_chunk, ov)
             next_chunk == NewChunk(overlap_words, word)
         IN [chunks |-> Append(st.chunks, Join(st.current_chunk)),
             pos |-> Append(st.pos, st.current_pos),
             current_chunk |-> next_chunk,
             current_pos |-> LastN(st.current_pos, Len(overlap_words))
                                \o <<p>>,
             current_length |-> SumLengths(next_chunk)]
    ELSE [st EXCEPT !.current_chunk = Append(@, word),
                    !.current_pos = Append(@, p),
                    !.current_length = @ + word_length]

RECURSIVE ChunkLoop(_, _, _, _, _)
ChunkLoop(words, p, st, size, ov) ==
    IF p > Len(words) THEN st
    ELSE ChunkLoop(words, p + 1, ChunkStep(st, words[p], p, size, ov),
                   size, ov)

\* "if current_chunk: chunks.append(' '.join(current_chunk))"
FinalChunk(st) ==
    IF st.current_chunk /= <<>>
    THEN [st EXCEPT !.chunks = Append(@, Join(st.current_chunk)),
                    !.pos = Append(@, st.current_pos)]
    ELSE st

\* chunk_text(text, chunk_size, overlap): the chunks and, beside them, the
\* positions in text.split() of the tokens of each chunk
chunk_text(t, size, ov) ==
    FinalChunk(ChunkLoop(Split(t), 1, LoopInit, size, ov))

ChunkAlphabet == {"a", "b", SP}

ChunkIdle ==
    /\ text = <<>> /\ chunk_size = 0 /\ overlap = 0
    /\ chunks = <<>> /\ chunk_pos = <<>> /\ cpc = "idle"

ChunkInit ==
    /\ text \in StringsUpTo(ChunkAlphabet, MaxTextLen)
    /\ chunk_size \in 1..MaxChunkSize
    /\ overlap \in 0..MaxOverlap
    /\ chunks = <<>> /\ chunk_pos = <<>> /\ cpc = "call"

ChunkText ==
    /\ cpc = "call"
    /\ LET r == chunk_text(text, chunk_size, overlap) IN
        /\ chunks' = r.chunks
        /\ chunk_pos' = r.pos
    /\ cpc' = "done"
    /\ UNCHANGED <<text, chunk_size, overlap>>

(***************************************************************************)
(* TextProcessor.clean_text                                                *)
(***************************************************************************)
RECURSIVE CollapseRuns(_, _, _)
\* re.sub(r'<class>+', rep, s): every maximal run of characters of the set
\* class becomes the single character rep
CollapseRuns(s, class, rep) ==
    IF s = <<>> THEN <<>>
    ELSE IF Head(s) \in class
         THEN IF Len(s) > 1 /\ s[2] \in class
              THEN CollapseRuns(Tail(s), class, rep)
              ELSE <<rep>> \o CollapseRuns(Tail(s), class, rep)
         ELSE <<Head(s)>> \o CollapseRuns(Tail(s), class, rep)

\* re.sub(r'\s+', ' ', text)
CollapseWhitespace(s) == CollapseRuns(s, Whitespace, SP)

\* re.sub(r'\n+', '\n', text)
CollapseNewlines(s) == CollapseRuns(s, {NL}, NL)

\* re.sub(r'[^\w\s.,;:!?-]', '', text)
DeleteSpecial(s) ==
    SelectSeq(s, LAMBDA c : IsWord(c) \/ IsSpace(c) \/ IsKeptPunct(c))

RECURSIVE LStrip(_)
LStrip(s) ==
    IF s /= <<>> /\ IsSpace(Head(s)) THEN LStrip(Tail(s)) ELSE s

RECURSIVE RStrip(_)
RStrip(s) ==
    IF s /= <<>> /\ IsSpace(s[Len(s)])
    THEN RStrip(SubSeq(s, 1, Len(s) - 1)) ELSE s

\* str.strip()
Strip(s) == RStrip(LStrip(s))

\* clean_text(text): the three substitutions in the order of the code, then
\* the strip
clean_text(s) ==
    Strip(CollapseNewlines(DeleteSpecial(CollapseWhitespace(s))))

CleanAlphabet == {"a", SP, NL, "@", "."}

CleanIdle ==
    /\ raw = <<>> /\ cleaned = <<>> /\ recleaned = <<>> /\ npc = "idle"

CleanInit ==
    /\ raw \in StringsUpTo(CleanAlphabet, MaxRawLen)
    /\ cleaned = <<>> /\ recleaned = <<>> /\ npc = "call"

\* cleaned = clean_text(raw)
CleanText ==
    /\ npc = "call"
    /\ cleaned' = clean_text(raw)
    /\ npc' = "cleaned"
    /\ UNCHANGED <<raw, recleaned>>

\* recleaned = clean_text(cleaned): the function applied to its own output
CleanAgain ==
    /\ npc = "cleaned"
    /\ recleaned' = clean_text(cleaned)
    /\ npc' = "recleaned"
    /\ UNCHANGED <<raw, cleaned>>

(***************************************************************************)
(* TextProcessor.get_text_stats                                            *)
(***************************************************************************)
RECURSIVE ReSplitAcc(_, _, _, _)
ReSplitAcc(s, k, cur, out) ==
    IF k > Len(s) THEN Append(out, cur)
    ELSE IF IsTerminator(s[k])
         THEN IF k > 1 /\ IsTerminator(s[k - 1])
              THEN ReSplitAcc(s, k + 1, cur, out)
              ELSE ReSplitAcc(s, k + 1, <<>>, Append(out, cur))
         ELSE ReSplitAcc(s, k + 1, Append(cur, s[k]), out)

\* re.split(r'[.!?]+', text): the pieces between the maximal runs of
\* terminators, empty pieces at either end included; [''] for ''
SplitSentences(s) == ReSplitAcc(s, 1, <<>>, <<>>)

RECURSIVE SumWordLengths(_)
\* sum(len(w) for w in words)
SumWordLengths(words) ==
    IF words = <<>> THEN 0
    ELSE Len(Head(words)) + SumWordLengths(Tail(words))

\* a / b: the quotient num/den, or ZeroDivisionError when den is 0
Divide(a, b) == [num |-> a, den |-> b, zero_division |-> b = 0]

\* the literal 0 of the two "else 0" branches
Zero == [num |-> 0, den |-> 1, zero_division |-> FALSE]

get_text_stats(s) ==
    LET words == Split(s)
        sentences == SplitSentences(s)
    IN [total_characters |-> Len(s),
        total_words |-> Len(words),
        total_sentences |->
            Len(SelectSeq(sentences, LAMBDA x : Strip(x) /= <<>>)),
        avg_word_length |->
            IF words /= <<>>
            THEN Divide(SumWordLengths(words), Len(words)) ELSE Zero,
        avg_sentence_length |->
            IF sentences /= <<>>
            THEN Divide(Len(words), Len(sentences)) ELSE Zero]

StatAlphabet == {"a", SP, ".", "!"}

NoStats ==
    [total_characters |-> 0, total_words |-> 0, total_sentences |-> 0,
     avg_word_length |-> Zero, avg_sentence_length |-> Zero]

StatIdle == stext = <<>> /\ stats = NoStats /\ spc = "idle"

StatInit ==
    /\ stext \in StringsUpTo(StatAlphabet, MaxStatLen)
    /\ stats = NoStats /\ spc = "call"

GetTextStats ==
    /\ spc = "call"
    /\ stats' = get_text_stats(stext)
    /\ spc' = "done"
    /\ UNCHANGED stext

(***************************************************************************)
(* ContentGenerator.summarize_text                                         *)
(*                                                                         *)
(* The reply of self.model.generate_content(prompt) is an input of the     *)
(* model.  What summarize_text does with it depends only on which of four  *)
(* kinds it is:                                                            *)
(*   "ok"          json.loads succeeds and gives a dict with the four keys *)
(*   "unparsable"  json.loads raises json.JSONDecodeError                  *)
(*   "wrong_shape" json.loads succeeds, the value lacks the four keys      *)
(*   "failure"     generate_content (or response.text) raises              *)
(***************************************************************************)
Responses == {"ok", "unparsable", "wrong_shape", "failure"}

\* text[:200]
FallbackChars == 200

Ellipsis == <<".", ".", ".">>

\* the keys of the structure the prompt asks for
SummaryKeys == {"title", "executive_summary", "key_points", "sections"}

\* a dict as json.loads gives it for a reply of the structure asked for
ModelSummary ==
    [title |-> "Model Title",
     executive_summary |-> <<"o", "k">>,
     key_points |-> <<"First key point">>,
     sections |-> <<[heading |-> "Section name",
                     content |-> "Detailed section summary",
                     importance |-> "high"]>>]

\* a value json.loads accepts that is not of that structure
ShapelessSummary == [note |-> "no summary"]

\* no value: the call did not return
NoSummary == [none |-> TRUE]

\* faulty variant: the slice is returned without the "..." marker
FallbackNoEllipsis(t) ==
    [title |-> "Document Summary",
     executive_summary |-> Take(t, FallbackChars),
     key_points |-> <<"Summary generation in progress">>,
     sections |-> <<>>]

\* the dict returned by the "except json.JSONDecodeError" branch
Fallback(t) ==
    [title |-> "Document Summary",
     executive_summary |-> Take(t, FallbackChars) \o Ellipsis,
     key_points |-> <<"Summary generation in progress">>,
     sections |-> <<>>]

\* summarize_text(text, max_points) for a reply of kind response: the
\* exception that leaves the method ("" for none) and the value returned
summarize_text(t, max_points, response) ==
    CASE response = "failure" ->
             [raises |-> "ServiceError", value |-> NoSummary]
      [] response = "unparsable" ->
             [raises |-> "", value |-> Fallback(t)]
      [] response = "wrong_shape" ->
             [raises |-> "", value |-> ShapelessSummary]
      [] OTHER ->
             [raises |-> "", value |-> ModelSummary]

\* d[key] on the value of json.loads: KeyError (TypeError for a value that
\* is no dict) when the key is missing
HasKey(d, key) == key \in DOMAIN d

(***************************************************************************)
(* ContentGenerator.process_file, from the chunk list on (lines 110-131).  *)
(*                                                                         *)
(* doc_chunks stands for chunk_text(clean_text, chunk_size=4000).  The     *)
(* code reads of each chunk only its text, which it hands to               *)
(* summarize_text, and of the list only its length; the chunks here are    *)
(* drawn from a short text and from one longer than the 200 characters the *)
(* fallback keeps.                                                         *)
(***************************************************************************)
ShortText == <<"a", "b", "c">>

LongText ==
    [k \in 1..(FallbackChars + 1) |->
        IF k = 1 THEN "a"
        ELSE IF k = FallbackChars THEN "b"
        ELSE IF k = FallbackChars + 1 THEN "c" ELSE "x"]

ChunkTexts == {ShortText, LongText}

\* chunks[:5]
MaxMapChunks == 5

NoCall == [text |-> <<>>, max_points |-> 0, response |-> "", value |-> NoSummary]

PipeIdle ==
    /\ clean_doc = <<>> /\ doc_chunks = <<>> /\ i = 0
    /\ chunk_summaries = <<>> /\ final_summary = NoSummary /\ calls = 0
    /\ last_call = NoCall /\ raised = "" /\ ppc = "idle"

PipeInit ==
    /\ doc_chunks \in StringsUpTo(ChunkTexts, MaxDocChunks)
    /\ clean_doc = Join(doc_chunks)
    /\ i = 0 /\ chunk_summaries = <<>> /\ final_summary = NoSummary
    /\ calls = 0 /\ last_call = NoCall /\ raised = "" /\ ppc = "summarize"

\* the record of the call just made
Called(t, max_points, response, r) ==
    [text |-> t, max_points |-> max_points, response |-> response,
     value |-> r.value]

\* lines 118-121: one pass of the loop over chunks[:5]
MapCall ==
    /\ ppc = "summarize"
    /\ Len(doc_chunks) > 1
    /\ i < Min(MaxMapChunks, Len(doc_chunks))
    /\ \E response \in Responses :
        LET chunk == doc_chunks[i + 1]
            r == summarize_text(chunk, 4, response)
        IN /\ calls' = calls + 1
           /\ last_call' = Called(chunk, 4, response, r)
           /\ IF r.raises /= ""
              THEN /\ raised' = r.raises /\ ppc' = "raised"
                   /\ UNCHANGED <<i, chunk_summaries>>
              ELSE IF ~HasKey(r.value, "executive_summary")
              THEN /\ raised' = "KeyError" /\ ppc' = "raised"
                   /\ UNCHANGED <<i, chunk_summaries>>
              ELSE /\ chunk_summaries' =
                        Append(chunk_summaries, r.value.executive_summary)
                   /\ i' = i + 1
                   /\ UNCHANGED <<raised, ppc>>
    /\ UNCHANGED <<clean_doc, doc_chunks, final_summary>>

\* lines 129-131: the summary is read back for the report
Report(r) ==
    IF r.raises /= ""
    THEN /\ raised' = r.raises /\ ppc' = "raised"
         /\ UNCHANGED final_summary
    ELSE /\ final_summary' = r.value
         /\ IF HasKey(r.value, "title") /\ HasKey(r.value, "key_points")
            THEN ppc' = "done" /\ UNCHANGED raised
            ELSE raised' = "KeyError" /\ ppc' = "raised"

\* lines 124-125: the call on the joined chunk summaries
ReduceCall ==
    /\ ppc = "summarize"
    /\ Len(doc_chunks) > 1
    /\ i = Min(MaxMapChunks, Len(doc_chunks))
    /\ \E response \in Responses :
        LET combined == Join(chunk_summaries)
            r == summarize_text(combined, 8, response)
        IN /\ calls' = calls + 1
           /\ last_call' = Called(combined, 8, response, r)
           /\ Report(r)
    /\ UNCHANGED <<clean_doc, doc_chunks, i, chunk_summaries>>

\* line 127: the call on the whole text of a document of at most one chunk
SingleCall ==
    /\ ppc = "summarize"
    /\ Len(doc_chunks) <= 1
    /\ \E response \in Responses :
        LET r == summarize_text(clean_doc, 8, response)
        IN /\ calls' = calls + 1
           /\ last_call' = Called(clean_doc, 8, response, r)
           /\ Report(r)
    /\ UNCHANGED <<clean_doc, doc_chunks, i, chunk_summaries>>

(***************************************************************************)
(* Specifications: one per operation under study; the variables of the     *)
(* others stay idle.                                                       *)
(***************************************************************************)
ChunkNext == ChunkText /\ UNCHANGED <<cleanVars, statVars, pipeVars>>

InitChunk == ChunkInit /\ CleanIdle /\ StatIdle /\ PipeIdle

SpecChunk ==
    /\ InitChunk
    /\ [][ChunkNext]_vars

CleanNext ==
    \/ CleanText /\ UNCHANGED <<chunkVars, statVars, pipeVars>>
    \/ CleanAgain /\ UNCHANGED <<chunkVars, statVars, pipeVars>>

InitClean == ChunkIdle /\ CleanInit /\ StatIdle /\ PipeIdle

SpecClean ==
    /\ InitClean
    /\ [][CleanNext]_vars

StatNext == GetTextStats /\ UNCHANGED <<chunkVars, cleanVars, pipeVars>>

InitStats == ChunkIdle /\ CleanIdle /\ StatInit /\ PipeIdle

SpecStats ==
    /\ InitStats
    /\ [][StatNext]_vars

PipeNext ==
    \/ MapCall /\ UNCHANGED <<chunkVars, cleanVars, statVars>>
    \/ ReduceCall /\ UNCHANGED <<chunkVars, cleanVars, statVars>>
    \/ SingleCall /\ UNCHANGED <<chunkVars, cleanVars, statVars>>

InitPipe == ChunkIdle /\ CleanIdle /\ StatIdle /\ PipeInit

SpecPipe ==
    /\ InitPipe
    /\ [][PipeNext]_vars

Init ==
    \/ InitChunk
    \/ InitClean
    \/ InitStats
    \/ InitPipe

Next == ChunkNext \/ CleanNext \/ StatNext \/ PipeNext

Spec == Init /\ [][Next]_vars

(***************************************************************************)
(* Properties of chunk_text (checked under SpecChunk).                     *)
(***************************************************************************)
Range(f) == {f[k] : k \in DOMAIN f}

RECURSIVE Flatten(_)
\* the concatenation of a sequence of sequences
Flatten(ss) == IF ss = <<>> THEN <<>> ELSE Head(ss) \o Flatten(Tail(ss))

\* The number of leading tokens of chunk k that are token occurrences of the
\* text also held by chunk k-1: the run the two chunks share.
LeadShared(k) ==
    IF k = 1 THEN 0
    ELSE CHOOSE n \in 0..Len(chunk_pos[k]) :
            /\ \A j \in 1..n : chunk_pos[k][j] \in Range(chunk_pos[k - 1])
            /\ n < Len(chunk_pos[k])
                  => chunk_pos[k][n + 1] \notin Range(chunk_pos[k - 1])

\* the shared leading run of chunk k, as tokens of the emitted string
SharedRun(k) == SubSeq(Split(chunks[k]), 1, LeadShared(k))

\* the tokens of chunk k after its shared leading run
NonOverlapTokens(k) ==
    SubSeq(Split(chunks[k]), LeadShared(k) + 1, Len(Split(chunks[k])))

\* C1: for a text with at least one token and chunk_size > 0, overlap > 0,
\* chunk_text emits no empty chunk, also when the first token alone exceeds
\* chunk_size.
C1_NoEmptyChunk ==
    (cpc = "done" /\ Split(text) /= <<>> /\ chunk_size > 0 /\ overlap > 0)
        => \A k \in 1..Len(chunks) : chunks[k] /= <<>>

\* C2: for 0 < overlap < chunk_size, the tokens of each chunk that were not
\* seeded from its predecessor, concatenated in chunk order, are exactly the
\* whitespace-delimited tokens of the text, in order.
C2_Reconstruction ==
    (cpc = "done" /\ 0 < overlap /\ overlap < chunk_size)
        => Flatten([k \in 1..Len(chunks) |-> NonOverlapTokens(k)])
              = Split(text)

\* C2 happens: at least three chunks, one of them seeded from its predecessor
C2_Witness ==
    /\ cpc = "done" /\ 0 < overlap /\ overlap < chunk_size
    /\ Len(chunks) >= 3
    /\ \E k \in 2..Len(chunks) :
          LeadShared(k) > 0 /\ NonOverlapTokens(k) /= <<>>

\* C3: for 0 < overlap < chunk_size, every emitted chunk is at most
\* chunk_size characters long, chunks that begin with seeded tokens included.
C3_SizeBounded ==
    (cpc = "done" /\ 0 < overlap /\ overlap < chunk_size)
        => \A k \in 1..Len(chunks) : Len(chunks[k]) <= chunk_size

\* C4: for every pair of consecutive chunks, the leading token run of the
\* later chunk that it shares with its predecessor has rendered length (the
\* sum of len(token) + 1 over the run) at most overlap.
C4_OverlapBound ==
    cpc = "done"
        => \A k \in 2..Len(chunks) : SumLengths(SharedRun(k)) <= overlap

\* C4 happens: a shared run of several tokens that uses the whole allowance
C4_Witness ==
    /\ cpc = "done" /\ 0 < overlap /\ overlap < chunk_size
    /\ \E k \in 2..Len(chunks) :
          LeadShared(k) >= 2 /\ SumLengths(SharedRun(k)) = overlap

(***************************************************************************)
(* Properties of the summarisation pipeline (checked under SpecPipe).      *)
(***************************************************************************)
Finished == ppc \in {"done", "raised"}

\* a dict with the four keys of the summary structure
WellFormed(d) == SummaryKeys \subseteq DOMAIN d

\* C5: in a run in which no summarizer call raises, a document of N > 1
\* chunks causes exactly min(N, 5) + 1 summarizer invocations.
C5_ExactCallCount ==
    (Finished /\ raised /= "ServiceError" /\ Len(doc_chunks) > 1)
        => calls = Min(Len(doc_chunks), 5) + 1

\* C6: a run without a transport or service failure returns a structurally
\* valid summary whatever the replies were; a malformed reply never reaches
\* the caller as an error, in the map calls or in the reduce call.
C6_AlwaysWellFormed ==
    (Finished /\ raised /= "ServiceError")
        => ppc = "done" /\ raised = "" /\ WellFormed(final_summary)

\* C7: a summarizer call on text t whose reply cannot be parsed returns
\* exactly title "Document Summary", executive_summary t[:200] + "...", one
\* fixed placeholder key point and no sections.
C7_DegradedRecord ==
    last_call.response = "unparsable"
        => last_call.value =
              [title |-> "Document Summary",
               executive_summary |->
                   SubSeq(last_call.text, 1,
                          IF Len(last_call.text) < 200
                          THEN Len(last_call.text) ELSE 200)
                       \o <<".", ".", ".">>,
               key_points |-> <<"Summary generation in progress">>,
               sections |-> <<>>]

\* C7 happens: an unparsable reply for a text longer than 200 characters
C7_Witness ==
    /\ last_call.response = "unparsable"
    /\ Len(last_call.text) > 200
    /\ Len(last_call.value.executive_summary) = 203

(***************************************************************************)
(* Properties of clean_text (checked under SpecClean).                     *)
(***************************************************************************)
\* C8: clean_text(clean_text(s)) = clean_text(s) for every string s.
C8_Idempotent == npc = "recleaned" => recleaned = cleaned

IsCanonical(s) ==
    /\ \A k \in 1..(Len(s) - 1) : ~(s[k] = SP /\ s[k + 1] = SP)
    /\ \A k \in 1..Len(s) : IsWord(s[k]) \/ IsSpace(s[k]) \/ IsKeptPunct(s[k])
    /\ \A k \in 1..(Len(s) - 1) : ~(s[k] = NL /\ s[k + 1] = NL)
    /\ s /= <<>> => ~IsSpace(s[1]) /\ ~IsSpace(s[Len(s)])

\* C9: the output of clean_text has no two consecutive spaces, no character
\* outside word characters, whitespace and . , ; : ! ? -, no run of
\* newlines, and no leading or trailing whitespace.
C9_CanonicalForm == npc \in {"cleaned", "recleaned"} => IsCanonical(cleaned)

(***************************************************************************)
(* Properties of get_text_stats (checked under SpecStats).                 *)
(***************************************************************************)
\* C10: get_text_stats never divides by zero; avg_word_length is 0 whenever
\* total_words is 0 and avg_sentence_length is 0 whenever total_sentences
\* is 0.
C10_GuardedAverages ==
    spc = "done"
        => /\ ~stats.avg_word_length.zero_division
           /\ ~stats.avg_sentence_length.zero_division
           /\ stats.total_words = 0 => stats.avg_word_length.num = 0
           /\ stats.total_sentences = 0 => stats.avg_sentence_length.num = 0

====
